---- MODULE Spec2Model ----
(***************************************************************************)
(* Model of PlaywrightBrowserManager (src/mcp_playwright/main.py): the     *)
(* single browser session, its two telemetry buffers, the page event       *)
(* handlers that fill them and the two windowed queries that read them.    *)
(*                                                                         *)
(* Python values are modelled as follows.  A dict is a record; a list is a *)
(* sequence; None is the string "None".  The "response" key, which a       *)
(* request entry lacks until a response is attached, is a field holding    *)
(* the empty sequence or the one response dict.                            *)
(* asyncio's loop.time() is the variable now, a clock that never goes back *)
(* and that may stand still between two calls (a coarse monotonic clock    *)
(* hands the same float to handlers that run in the same tick).            *)
(***************************************************************************)
EXTENDS Integers, Sequences, FiniteSets, TLC

VARIABLES
    playwright,        \* self.playwright: "None" or the engine handle
    browser,           \* self.browser: "None" or the browser handle
    page,              \* self.page: "None" or a page object
    is_initialized,    \* self.is_initialized
    console_logs,      \* self.console_logs
    network_requests,  \* self.network_requests
    now,               \* asyncio.get_event_loop().time()
    live,              \* pages of the browser that are open and deliver events
    created,           \* number of page objects browser.new_page() has made
    running,           \* processes that run: "engine", "browser"
    open_pc,           \* where the open_url or initialize coroutine is suspended
    close_pc,          \* where the close coroutine is suspended
    closing,           \* the page whose close() the close coroutine awaits
    ret,               \* the most recent call that returned, with its result
    launched,          \* history: browsers launched since close last ended
    overlap,           \* history: the last close was called during an open_url
    responses          \* history: response events per url since its first request

vars == <<playwright, browser, page, is_initialized, console_logs,
          network_requests, now, live, created, running, open_pc, close_pc,
          closing, ret, launched, overlap, responses>>

None == "None"

handles == <<playwright, browser, page, is_initialized>>
buffers == <<console_logs, network_requests>>
world == <<now, live, created, running>>
pcs == <<open_pc, close_pc, closing>>
\* The history variables record what has happened and are read by no action.
\* A page event leaves them to the specification that delivers it.
history == <<launched, overlap, responses>>

(***************************************************************************)
(* Bounds of the model.                                                    *)
(***************************************************************************)
MaxConsole == 4     \* console entries delivered in the console specification
MaxNet == 3         \* requests delivered in the network specification
MaxTime == 1        \* largest value of the clock
MaxLastN == 2       \* small last_n arguments run over 0 - MaxNegLastN .. MaxLastN
MaxNegLastN == 1
MaxPages == 2       \* pages created in the session specification
MaxSessionLogs == 2 \* entries in both buffers together in the session specification
ManyLastN == 10     \* a last_n larger than any buffer of the model
BigLastN == 100     \* "use a large number to get all logs"
MaxOverlapLogs == 1 \* entries in both buffers together in the overlap specification
MaxResponses == 3   \* response events counted per url in the matching specification

\* The console messages a page emits: two texts, a text that reads like a
\* rewritten one, and a second type.
Messages ==
    {[type |-> "info", text |-> "a"],
     [type |-> "info", text |-> "b"],
     [type |-> "info", text |-> "a (repeated 2 times)"],
     [type |-> "error", text |-> "a"]}
Urls == {"u1", "u2"}
Methods == {"GET"}
Statuses == {200, 404}
\* The smaller inputs of the session specification.
SessionTypes == {"info"}
SessionTexts == {"a", "b"}
SessionStatuses == {200}
SessionLastNs == {0 - MaxNegLastN, 0, BigLastN}
LastNs == ((0 - MaxNegLastN)..MaxLastN) \cup {ManyLastN, BigLastN}

Min(a, b) == IF a <= b THEN a ELSE b
Max(a, b) == IF a >= b THEN a ELSE b

(***************************************************************************)
(* Python built-ins used by the queries.                                   *)
(***************************************************************************)
\* s[:n]: the first n items; a negative n counts from the end.
PySlice(s, n) ==
    IF n >= 0 THEN SubSeq(s, 1, Min(n, Len(s)))
              ELSE SubSeq(s, 1, Max(0, Len(s) + n))

\* One insertion of a stable ascending sort on 'timestamp': e goes after every
\* item whose key is not larger.
InsertAsc(s, e) ==
    LET k == Cardinality({i \in 1..Len(s) : s[i].timestamp <= e.timestamp})
    IN  SubSeq(s, 1, k) \o <<e>> \o SubSeq(s, k + 1, Len(s))

\* sorted(s, key=timestamp) and s.sort(key=timestamp): stable.
RECURSIVE SortAsc(_)
SortAsc(s) ==
    IF s = <<>> THEN <<>>
    ELSE InsertAsc(SortAsc(SubSeq(s, 1, Len(s) - 1)), s[Len(s)])

\* One insertion of a stable descending sort: reverse=True keeps items of
\* equal key in their original order, so e goes after every item whose key
\* is not smaller.
InsertDesc(s, e) ==
    LET k == Cardinality({i \in 1..Len(s) : s[i].timestamp >= e.timestamp})
    IN  SubSeq(s, 1, k) \o <<e>> \o SubSeq(s, k + 1, Len(s))

\* sorted(s, key=timestamp, reverse=True) and s.sort(key=timestamp, reverse=True).
RECURSIVE SortDesc(_)
SortDesc(s) ==
    IF s = <<>> THEN <<>>
    ELSE InsertDesc(SortDesc(SubSeq(s, 1, Len(s) - 1)), s[Len(s)])

(***************************************************************************)
(* get_console_logs: grouping of consecutive repeats, then the window.     *)
(***************************************************************************)
\* f"{log['text']} (repeated {count} times)"
RepeatedText(text, count) ==
    text \o " (repeated " \o ToString(count) \o " times)"

\* DedupStep as it would be if a repeat were looked up among all groups
\* instead of being compared with the current group only.
DedupStepAnyGroup(deduplicated_logs, log) ==
    LET same == {n \in 1..Len(deduplicated_logs) :
                    /\ deduplicated_logs[n].type = log.type
                    /\ deduplicated_logs[n].text \in
                         {log.text,
                          RepeatedText(log.text, deduplicated_logs[n].count)}}
    IN  IF same = {}
        THEN Append(deduplicated_logs,
                    [type |-> log.type, text |-> log.text,
                     location |-> log.location, timestamp |-> log.timestamp,
                     count |-> 1, timestamps |-> <<log.timestamp>>])
        ELSE LET n == CHOOSE x \in same : \A y \in same : y <= x
                 count == deduplicated_logs[n].count + 1
             IN  [deduplicated_logs EXCEPT ![n] =
                     [@ EXCEPT !.count = count,
                               !.timestamps = Append(@, log.timestamp),
                               !.text = RepeatedText(log.text, count)]]

\* One iteration of the loop over sorted_logs.  current_group is the dict
\* appended last to deduplicated_logs (the loop mutates it in place).
DedupStep(deduplicated_logs, log) ==
    LET n == Len(deduplicated_logs)
    IN  IF \/ n = 0
           \/ log.type # deduplicated_logs[n].type
           \/ log.text # deduplicated_logs[n].text
        THEN Append(deduplicated_logs,
                    [type |-> log.type, text |-> log.text,
                     location |-> log.location, timestamp |-> log.timestamp,
                     count |-> 1, timestamps |-> <<log.timestamp>>])
        ELSE LET current_group == deduplicated_logs[n]
                 count == current_group.count + 1
             IN  [deduplicated_logs EXCEPT ![n] =
                     [current_group EXCEPT
                         !.count = count,
                         !.timestamps = Append(@, log.timestamp),
                         !.text = IF count > 1
                                  THEN RepeatedText(log.text, count)
                                  ELSE @]]

\* The whole loop: deduplicated_logs after the last entry of sorted_logs.
RECURSIVE Deduplicate(_)
Deduplicate(sorted_logs) ==
    IF sorted_logs = <<>> THEN <<>>
    ELSE DedupStep(Deduplicate(SubSeq(sorted_logs, 1, Len(sorted_logs) - 1)),
                   sorted_logs[Len(sorted_logs)])

\* The window: newest first, cut to last_n, oldest first again.
LastWindow(items, last_n) == SortAsc(PySlice(SortDesc(items), last_n))

\* The value get_console_logs(last_n) returns for the stored console_logs.
get_console_logs(last_n) ==
    IF console_logs = <<>> THEN <<>>
    ELSE LastWindow(Deduplicate(SortAsc(console_logs)), last_n)

(***************************************************************************)
(* Event handlers and calls.                                               *)
(***************************************************************************)
\* A call that has returned value; error names the exception of a call that
\* raised instead.
Returned(op, arg, value) ==
    [op |-> op, arg |-> arg, value |-> value, error |-> None]

\* _handle_console_message as it would be if the new entry were put in
\* front of the stored ones.
HandleConsoleMessageInFront(p, type, text) ==
    /\ console_logs' =
          <<[type |-> type, text |-> text, location |-> p, timestamp |-> now]>>
             \o console_logs
    /\ ret' = Returned("_handle_console_message", None, None)
    /\ UNCHANGED <<handles, network_requests, world, pcs, history>>

\* _handle_console_message(message): one entry appended.  message.location
\* is opaque to the manager; the model lets it name the page that emitted
\* the message.
_handle_console_message(p, type, text) ==
    /\ console_logs' = Append(console_logs,
           [type |-> type, text |-> text, location |-> p, timestamp |-> now])
    /\ ret' = Returned("_handle_console_message", None, None)
    /\ UNCHANGED <<handles, network_requests, world, pcs, history>>

\* A live page emits a console message; its listener runs to completion.
ConsoleEvent(p, type, text) ==
    /\ p \in live
    /\ _handle_console_message(p, type, text)

(***************************************************************************)
(* Network events and get_network_requests.  A request entry keeps url,    *)
(* method and timestamp of the code's dict; headers, resourceType and id   *)
(* are stored by the code and read by none of it, and are left out.        *)
(* origin is a history field: the page whose event made the entry.         *)
(***************************************************************************)
\* _handle_request(request): one entry appended, without a "response" key.
_handle_request(p, url, method) ==
    /\ network_requests' = Append(network_requests,
           [url |-> url, method |-> method, timestamp |-> now,
            origin |-> p, response |-> <<>>])
    /\ ret' = Returned("_handle_request", None, None)
    /\ UNCHANGED <<handles, console_logs, world, pcs, history>>

\* The entries a response for url may be attached to: same url, no response.
Unmatched(url) ==
    {i \in 1..Len(network_requests) :
        /\ network_requests[i].url = url
        /\ network_requests[i].response = <<>>}

\* _handle_response without its break: every unmatched entry of the url
\* takes the response.
HandleResponseNoBreak(p, url, status) ==
    /\ network_requests' =
          [i \in 1..Len(network_requests) |->
              IF i \in Unmatched(url)
              THEN [network_requests[i] EXCEPT
                       !.response = <<[status |-> status, timestamp |-> now]>>]
              ELSE network_requests[i]]
    /\ ret' = Returned("_handle_response", [url |-> url, status |-> status], None)
    /\ UNCHANGED <<handles, console_logs, world, pcs>>

\* _handle_response without the test '"response" not in request': the first
\* entry of the url takes the response, matched or not.
HandleResponseOverwrite(p, url, status) ==
    LET same == {i \in 1..Len(network_requests) : network_requests[i].url = url}
    IN  /\ network_requests' =
              IF same = {} THEN network_requests
              ELSE LET first == CHOOSE i \in same : \A j \in same : i <= j
                   IN  [network_requests EXCEPT ![first].response =
                           <<[status |-> status, timestamp |-> now]>>]
        /\ ret' = Returned("_handle_response",
                           [url |-> url, status |-> status], None)
        /\ UNCHANGED <<handles, console_logs, world, pcs>>

\* _handle_response as it would be if a response without a request were
\* recorded as an exchange of its own.
HandleResponseKeepOrphan(p, url, status) ==
    /\ network_requests' =
          IF Unmatched(url) = {}
          THEN Append(network_requests,
                      [url |-> url, method |-> None, timestamp |-> now,
                       origin |-> p,
                       response |-> <<[status |-> status, timestamp |-> now]>>])
          ELSE LET first == CHOOSE i \in Unmatched(url) :
                                \A j \in Unmatched(url) : i <= j
               IN  [network_requests EXCEPT ![first].response =
                       <<[status |-> status, timestamp |-> now]>>]
    /\ ret' = Returned("_handle_response", [url |-> url, status |-> status], None)
    /\ UNCHANGED <<handles, console_logs, world, pcs>>

\* _handle_response as it would be if the loop ran over the stored entries
\* from the newest to the oldest.
HandleResponseNewest(p, url, status) ==
    /\ network_requests' =
          IF Unmatched(url) = {} THEN network_requests
          ELSE LET newest == CHOOSE i \in Unmatched(url) :
                                 \A j \in Unmatched(url) : j <= i
               IN  [network_requests EXCEPT ![newest].response =
                       <<[status |-> status, timestamp |-> now]>>]
    /\ ret' = Returned("_handle_response", [url |-> url, status |-> status], None)
    /\ UNCHANGED <<handles, console_logs, world, pcs>>

\* _handle_response(response): the loop stops at the first entry of the
\* response's url that has no response yet; without one nothing is stored.
_handle_response(p, url, status) ==
    /\ network_requests' =
          IF Unmatched(url) = {} THEN network_requests
          ELSE LET first == CHOOSE i \in Unmatched(url) :
                                \A j \in Unmatched(url) : i <= j
               IN  [network_requests EXCEPT ![first].response =
                       <<[status |-> status, timestamp |-> now]>>]
    /\ ret' = Returned("_handle_response", [url |-> url, status |-> status], None)
    /\ UNCHANGED <<handles, console_logs, world, pcs>>

\* A live page issues a request; its listener runs to completion.
RequestEvent(p, url, method) ==
    /\ p \in live
    /\ _handle_request(p, url, method)

\* A live page reports a response; its listener runs to completion.
ResponseEvent(p, url, status) ==
    /\ p \in live
    /\ _handle_response(p, url, status)

\* The value get_network_requests(last_n) returns for the stored entries.
get_network_requests(last_n) ==
    IF network_requests = <<>> THEN <<>>
    ELSE SortAsc(PySlice(SortDesc(network_requests), last_n))

\* A caller awaits get_network_requests(last_n); the coroutine never suspends.
CallGetNetworkRequests(last_n) ==
    /\ ret' = Returned("get_network_requests", last_n,
                       get_network_requests(last_n))
    /\ UNCHANGED <<handles, buffers, world, pcs, history>>

\* The event loop's clock advances.
Tick ==
    /\ now < MaxTime
    /\ now' = now + 1
    /\ UNCHANGED <<handles, buffers, live, created, running, pcs, ret, history>>

\* CallGetConsoleLogs as it would be if the loop grouped the stored dicts
\* themselves instead of new ones.
CallGetConsoleLogsInPlace(last_n) ==
    /\ ret' = Returned("get_console_logs", last_n, get_console_logs(last_n))
    /\ console_logs' = Deduplicate(SortAsc(console_logs))
    /\ UNCHANGED <<handles, network_requests, world, pcs, history>>

\* A caller awaits get_console_logs(last_n); the coroutine never suspends.
CallGetConsoleLogs(last_n) ==
    /\ ret' = Returned("get_console_logs", last_n, get_console_logs(last_n))
    /\ UNCHANGED <<handles, buffers, world, pcs, history>>

(***************************************************************************)
(* Session lifecycle.  initialize, open_url and close are coroutines:      *)
(* between two awaits a coroutine runs alone, and while it is suspended at *)
(* an await the event loop runs page listeners and other calls.  open_pc   *)
(* and close_pc name the await a coroutine is suspended at; open_pc is     *)
(* "start" and "launch" inside the initialize() that open_url awaits, and  *)
(* "initialize.start" and "initialize.launch" inside an initialize()       *)
(* called on its own.  Each await of start, launch, new_page and goto ends *)
(* in its result or in an exception, which the coroutine does not catch;   *)
(* launch can only succeed on a running engine, new_page on a running      *)
(* browser and goto on an open page.  The close() and stop() calls of the  *)
(* engine return also for an object that is closed already.  The model     *)
(* does not tell one engine or browser process from the next.  The url of  *)
(* open_url reaches only page.goto and the returned message, and is left   *)
(* out.                                                                    *)
(***************************************************************************)
\* The k-th page object browser.new_page() makes.
PageObject(k) == "page" \o ToString(k)

\* A call that ended in an exception.
Raised(op, error) == [op |-> op, arg |-> None, value |-> None, error |-> error]

\* No call is in flight.
Idle == open_pc = "idle" /\ close_pc = "idle"

\* The call that the suspended initialize() belongs to.
Caller ==
    IF open_pc \in {"initialize.start", "initialize.launch"}
    THEN "initialize" ELSE "open_url"

\* __init__: no handles, empty buffers.
Init ==
    /\ playwright = None
    /\ browser = None
    /\ page = None
    /\ is_initialized = FALSE
    /\ console_logs = <<>>
    /\ network_requests = <<>>
    /\ now = 0
    /\ live = {}
    /\ created = 0
    /\ running = {}
    /\ open_pc = "idle"
    /\ close_pc = "idle"
    /\ closing = None
    /\ ret = Returned("__init__", None, None)
    /\ launched = 0
    /\ overlap = FALSE
    /\ responses = [u \in Urls |-> 0]

\* open_url from the reset of the buffers to its next await,
\* browser.new_page(); with self.browser None the attribute lookup raises
\* at once.
OpenUrlReset ==
    /\ console_logs' = <<>>
    /\ network_requests' = <<>>
    /\ IF browser' = None
       THEN /\ open_pc' = "idle"
            /\ ret' = Raised("open_url", "AttributeError")
       ELSE /\ open_pc' = "new_page"
            /\ UNCHANGED ret

\* open_url from 'if self.page' to its next await: page.close() of the
\* page at hand, or else the reset of the buffers and browser.new_page().
OpenUrlAfterInitialize ==
    IF page # None
    THEN /\ open_pc' = "page.close"
         /\ UNCHANGED <<buffers, ret>>
    ELSE OpenUrlReset

\* open_url is called: initialize() runs to its first await when the session
\* is not initialized, else open_url goes on.
CallOpenUrl ==
    /\ open_pc = "idle"
    /\ overlap' = FALSE
    /\ UNCHANGED <<handles, world, close_pc, closing, launched, responses>>
    /\ IF ~is_initialized
       THEN /\ open_pc' = "start"
            /\ UNCHANGED <<buffers, ret>>
       ELSE OpenUrlAfterInitialize

\* CallInitialize as it would be without the test of is_initialized.
CallInitializeAlways ==
    /\ open_pc = "idle"
    /\ overlap' = FALSE
    /\ open_pc' = "initialize.start"
    /\ UNCHANGED <<handles, buffers, world, close_pc, closing, ret, launched,
                   responses>>

\* initialize is called on its own: it returns at once when the session is
\* initialized, else it runs to its first await.
CallInitialize ==
    /\ open_pc = "idle"
    /\ overlap' = FALSE
    /\ IF is_initialized
       THEN /\ ret' = Returned("initialize", None, None)
            /\ UNCHANGED open_pc
       ELSE /\ open_pc' = "initialize.start"
            /\ UNCHANGED ret
    /\ UNCHANGED <<handles, buffers, world, close_pc, closing, launched,
                   responses>>

\* async_playwright().start() returns; chromium.launch() is awaited.
StartDone ==
    /\ open_pc \in {"start", "initialize.start"}
    /\ playwright' = "engine"
    /\ running' = running \cup {"engine"}
    /\ open_pc' = IF open_pc = "start" THEN "launch" ELSE "initialize.launch"
    /\ UNCHANGED <<browser, page, is_initialized, buffers, now, live, created,
                   close_pc, closing, ret, history>>

\* async_playwright().start() raises, out of initialize and its caller.
StartFailed ==
    /\ open_pc \in {"start", "initialize.start"}
    /\ open_pc' = "idle"
    /\ ret' = Raised(Caller, "start failed")
    /\ UNCHANGED <<handles, buffers, world, close_pc, closing, history>>

\* chromium.launch() returns: initialize ends, and open_url goes on.
LaunchDone ==
    /\ open_pc \in {"launch", "initialize.launch"}
    /\ "engine" \in running
    /\ browser' = "browser"
    /\ is_initialized' = TRUE
    /\ running' = running \cup {"browser"}
    /\ launched' = launched + 1
    /\ UNCHANGED <<playwright, page, now, live, created, close_pc, closing,
                   overlap, responses>>
    /\ IF open_pc = "launch"
       THEN OpenUrlAfterInitialize
       ELSE /\ open_pc' = "idle"
            /\ ret' = Returned("initialize", None, None)
            /\ UNCHANGED buffers

\* LaunchFailed as it would be if initialize started over when the launch
\* fails.
LaunchFailedRetried ==
    /\ open_pc \in {"launch", "initialize.launch"}
    /\ open_pc' = IF open_pc = "launch" THEN "start" ELSE "initialize.start"
    /\ UNCHANGED <<handles, buffers, world, close_pc, closing, ret, history>>

\* chromium.launch() raises, out of initialize and its caller.
LaunchFailed ==
    /\ open_pc \in {"launch", "initialize.launch"}
    /\ open_pc' = "idle"
    /\ ret' = Raised(Caller, "launch failed")
    /\ UNCHANGED <<handles, buffers, world, close_pc, closing, history>>

\* OldPageClosed as it would be if open_url did not reset the buffers.
OldPageClosedNoReset ==
    /\ open_pc = "page.close"
    /\ live' = live \ {page}
    /\ open_pc' = "new_page"
    /\ UNCHANGED <<handles, buffers, now, created, running, close_pc, closing,
                   ret, history>>

\* The old page's close() returns: the page delivers no more events; both
\* buffers are reset and browser.new_page() is awaited.  self.page keeps
\* naming the closed page.
OldPageClosed ==
    /\ open_pc = "page.close"
    /\ live' = live \ {page}
    /\ UNCHANGED <<handles, now, created, running, close_pc, closing, history>>
    /\ OpenUrlReset

\* browser.new_page() returns a new page; the three listeners are attached
\* and page.goto() is awaited.
NewPageDone ==
    /\ open_pc = "new_page"
    /\ "browser" \in running
    /\ created' = created + 1
    /\ page' = PageObject(created + 1)
    /\ live' = live \cup {PageObject(created + 1)}
    /\ open_pc' = "goto"
    /\ UNCHANGED <<playwright, browser, is_initialized, buffers, now, running,
                   close_pc, closing, ret, history>>

\* browser.new_page() raises, out of open_url.
NewPageFailed ==
    /\ open_pc = "new_page"
    /\ open_pc' = "idle"
    /\ ret' = Raised("open_url", "new_page failed")
    /\ UNCHANGED <<handles, buffers, world, close_pc, closing, history>>

\* page.goto() returns on the page open_url made: open_url returns its
\* message.
GotoDone ==
    /\ open_pc = "goto"
    /\ PageObject(created) \in live
    /\ open_pc' = "idle"
    /\ ret' = Returned("open_url", None, "Opened")
    /\ UNCHANGED <<handles, buffers, world, close_pc, closing, history>>

\* GotoFailed as it would be if open_url closed and dropped its page when
\* the navigation fails.
GotoFailedPageClosed ==
    /\ open_pc = "goto"
    /\ open_pc' = "idle"
    /\ ret' = Raised("open_url", "goto failed")
    /\ page' = None
    /\ live' = live \ {page}
    /\ UNCHANGED <<playwright, browser, is_initialized, buffers, now, created,
                   running, close_pc, closing, history>>

\* page.goto() raises, out of open_url; the page stays.
GotoFailed ==
    /\ open_pc = "goto"
    /\ open_pc' = "idle"
    /\ ret' = Raised("open_url", "goto failed")
    /\ UNCHANGED <<handles, buffers, world, close_pc, closing, history>>

\* The end of close: the flag and both buffers are reset.
CloseEnd ==
    /\ is_initialized' = FALSE
    /\ console_logs' = <<>>
    /\ network_requests' = <<>>
    /\ close_pc' = "idle"
    /\ ret' = Returned("close", None, None)
    /\ launched' = 0

\* close from 'if self.playwright' on.
CloseFromPlaywright ==
    IF playwright # None
    THEN /\ close_pc' = "stop"
         /\ UNCHANGED <<is_initialized, buffers, ret, launched>>
    ELSE CloseEnd

\* CloseFromBrowser as it would be if close left the browser alone.
CloseFromBrowserSkipped == CloseFromPlaywright

\* close from 'if self.browser' on.
CloseFromBrowser ==
    IF browser # None
    THEN /\ close_pc' = "browser.close"
         /\ UNCHANGED <<is_initialized, buffers, ret, launched>>
    ELSE CloseFromPlaywright

\* close is called and runs to its first await, or to its end.
CallClose ==
    /\ close_pc = "idle"
    /\ overlap' = (open_pc # "idle")
    /\ IF page # None
       THEN /\ close_pc' = "page.close"
            /\ closing' = page
            /\ UNCHANGED <<is_initialized, buffers, ret, launched>>
       ELSE /\ UNCHANGED closing
            /\ CloseFromBrowser
    /\ UNCHANGED <<playwright, browser, page, world, open_pc, responses>>

\* close: page.close() returns; self.page is dropped.
ClosePageDone ==
    /\ close_pc = "page.close"
    /\ live' = live \ {closing}
    /\ page' = None
    /\ closing' = None
    /\ CloseFromBrowser
    /\ UNCHANGED <<playwright, browser, now, created, running, open_pc,
                   overlap, responses>>

\* close: browser.close() returns, which ends every page of the browser.
CloseBrowserDone ==
    /\ close_pc = "browser.close"
    /\ live' = {}
    /\ running' = running \ {"browser"}
    /\ browser' = None
    /\ CloseFromPlaywright
    /\ UNCHANGED <<playwright, page, now, created, open_pc, closing, overlap,
                   responses>>

\* close: playwright.stop() returns, which ends the engine and all it runs.
CloseStopDone ==
    /\ close_pc = "stop"
    /\ live' = {}
    /\ running' = {}
    /\ playwright' = None
    /\ CloseEnd
    /\ UNCHANGED <<browser, page, now, created, open_pc, closing, overlap,
                   responses>>

(***************************************************************************)
(* The console specification: a session whose first open_url has returned *)
(* with page 1 open and nothing captured yet (a state the session          *)
(* specification reaches); the page emits console messages and callers     *)
(* query them.                                                             *)
(***************************************************************************)
InitPageOpen ==
    /\ playwright = "engine"
    /\ browser = "browser"
    /\ page = PageObject(1)
    /\ is_initialized = TRUE
    /\ console_logs = <<>>
    /\ network_requests = <<>>
    /\ now = 0
    /\ live = {PageObject(1)}
    /\ created = 1
    /\ running = {"engine", "browser"}
    /\ open_pc = "idle"
    /\ close_pc = "idle"
    /\ closing = None
    /\ ret = Returned("open_url", None, "Opened")
    /\ launched = 1
    /\ overlap = FALSE
    /\ responses = [u \in Urls |-> 0]

NextConsole ==
    \/ \E p \in live, m \in Messages :
          Len(console_logs) < MaxConsole /\ ConsoleEvent(p, m.type, m.text)
    \/ Tick
    \/ \E last_n \in LastNs : CallGetConsoleLogs(last_n)

SpecConsole == InitPageOpen /\ [][NextConsole]_vars

(***************************************************************************)
(* The network specification: the same session; the page issues requests   *)
(* and reports responses, and callers query them.                          *)
(***************************************************************************)
NextNetwork ==
    \/ \E p \in live, url \in Urls, method \in Methods :
          Len(network_requests) < MaxNet /\ RequestEvent(p, url, method)
    \/ \E p \in live, url \in Urls, status \in Statuses :
          ResponseEvent(p, url, status) /\ UNCHANGED history
    \/ Tick
    \/ \E last_n \in LastNs : CallGetNetworkRequests(last_n)

SpecNetwork == InitPageOpen /\ [][NextNetwork]_vars

(***************************************************************************)
(* The session specification: the manager from its construction, with      *)
(* initialize, open_url and close called one after the other, page events  *)
(* delivered whenever a page with listeners is open, and the queries       *)
(* called at any time.                                                     *)
(***************************************************************************)
SessionLogs == Len(console_logs) + Len(network_requests)

Next ==
    \/ Idle /\ created < MaxPages /\ CallOpenUrl
    \/ Idle /\ CallInitialize
    \/ StartDone
    \/ StartFailed
    \/ LaunchDone
    \/ LaunchFailed
    \/ OldPageClosed
    \/ NewPageDone
    \/ NewPageFailed
    \/ GotoDone
    \/ GotoFailed
    \/ Idle /\ CallClose
    \/ ClosePageDone
    \/ CloseBrowserDone
    \/ CloseStopDone
    \/ \E p \in live, type \in SessionTypes, text \in SessionTexts :
          SessionLogs < MaxSessionLogs /\ ConsoleEvent(p, type, text)
    \/ \E p \in live, url \in Urls, method \in Methods :
          SessionLogs < MaxSessionLogs /\ RequestEvent(p, url, method)
    \/ \E p \in live, url \in Urls, status \in SessionStatuses :
          ResponseEvent(p, url, status) /\ UNCHANGED history
    \/ Tick
    \/ \E last_n \in SessionLastNs : CallGetConsoleLogs(last_n)
    \/ \E last_n \in SessionLastNs : CallGetNetworkRequests(last_n)

Spec == Init /\ [][Next]_vars

(***************************************************************************)
(* The overlap specification: the manager from its construction, with      *)
(* close called at any time, also while an open_url is suspended at one of *)
(* its awaits.  open_url is called when no call is in flight.              *)
(***************************************************************************)
NextOverlap ==
    \/ Idle /\ created < MaxPages /\ CallOpenUrl
    \/ StartDone
    \/ StartFailed
    \/ LaunchDone
    \/ LaunchFailed
    \/ OldPageClosed
    \/ NewPageDone
    \/ NewPageFailed
    \/ GotoDone
    \/ GotoFailed
    \/ CallClose
    \/ ClosePageDone
    \/ CloseBrowserDone
    \/ CloseStopDone
    \/ \E p \in live, type \in SessionTypes, text \in SessionTexts :
          SessionLogs < MaxOverlapLogs /\ ConsoleEvent(p, type, text)
    \/ \E p \in live, url \in Urls, method \in Methods :
          SessionLogs < MaxOverlapLogs /\ RequestEvent(p, url, method)

SpecOverlap == Init /\ [][NextOverlap]_vars

(***************************************************************************)
(* The matching specification: the session with page 1 open; the page      *)
(* issues requests and reports responses, and responses records how many   *)
(* response events of a url have come since the first request of that url  *)
(* was stored.                                                             *)
(***************************************************************************)
\* The stored exchanges of url, as positions of the buffer.
Exchanges(url) ==
    {i \in 1..Len(network_requests) : network_requests[i].url = url}

NextMatching ==
    \/ \E p \in live, url \in Urls, method \in Methods :
          Len(network_requests) < MaxNet /\ RequestEvent(p, url, method)
    \/ \E p \in live, url \in Urls, status \in Statuses :
          /\ responses[url] < MaxResponses
          /\ ResponseEvent(p, url, status)
          /\ responses' = [responses EXCEPT ![url] =
                              IF Exchanges(url) # {} THEN @ + 1 ELSE @]
          /\ UNCHANGED <<launched, overlap>>

SpecMatching == InitPageOpen /\ [][NextMatching]_vars

(***************************************************************************)
(* Vocabulary of the console claims, defined on the stored entries alone.  *)
(***************************************************************************)
SameMessage(x, y) == x.type = y.type /\ x.text = y.text

\* The stored entries in timestamp order.
SortedConsole == SortAsc(console_logs)

\* First positions of the maximal runs of consecutive identical entries of s.
RunStarts(s) ==
    {i \in 1..Len(s) : i = 1 \/ ~SameMessage(s[i], s[i - 1])}

\* Last position of the run that starts at i.
RunEnd(s, i) ==
    CHOOSE j \in i..Len(s) :
        /\ \A m \in i..j : SameMessage(s[m], s[i])
        /\ j = Len(s) \/ ~SameMessage(s[j + 1], s[i])

RunLength(s, i) == RunEnd(s, i) - i + 1

\* Start of the k-th run.
KthRunStart(s, k) ==
    CHOOSE i \in RunStarts(s) :
        Cardinality({j \in RunStarts(s) : j <= i}) = k

RECURSIVE SumCounts(_, _)
SumCounts(v, k) == IF k = 0 THEN 0 ELSE SumCounts(v, k - 1) + v[k].count

\* Positions of the sorted entries that record k of a full result v counts:
\* the records partition the entries in order.
Covered(v, k) == (SumCounts(v, k - 1) + 1)..SumCounts(v, k)

\* The last call was get_console_logs with a window that cuts nothing.
FullConsoleResult ==
    /\ ret.op = "get_console_logs"
    /\ ret.arg >= Len(console_logs)
    /\ console_logs # <<>>

TextsOf(v) == [k \in 1..Len(v) |-> v[k].text]
CountsOf(v) == [k \in 1..Len(v) |-> v[k].count]
TypesOf(v) == [k \in 1..Len(v) |-> v[k].type]

\* The stored entries are the example of the specification:
\* (info,a), (info,a), (info,b), (info,a).
ExampleBuffer ==
    /\ TextsOf(console_logs) = <<"a", "a", "b", "a">>
    /\ TypesOf(console_logs) = <<"info", "info", "info", "info">>

(***************************************************************************)
(* C1.  A full result holds exactly one record per maximal run of          *)
(* consecutive identical (type, text) entries, and the record's count is   *)
(* the length of its run, runs of three or more included.                  *)
(***************************************************************************)
C1_OneRecordPerRun ==
    FullConsoleResult =>
        LET s == SortedConsole
            v == ret.value
        IN  /\ Len(v) = Cardinality(RunStarts(s))
            /\ \A k \in 1..Len(v) : v[k].count = RunLength(s, KthRunStart(s, k))

\* The groups the loop of get_console_logs builds from the stored entries.
ConsoleGroups == Deduplicate(SortedConsole)

\* The last k items of a sequence.
LastK(s, k) == SubSeq(s, Len(s) - k + 1, Len(s))

(***************************************************************************)
(* C2.  For a positive last_n the result is the last min(last_n, G) of the *)
(* G groups, oldest first, also when groups carry equal timestamps.        *)
(***************************************************************************)
C2_LastGroups ==
    (ret.op = "get_console_logs" /\ ret.arg > 0) =>
        ret.value = LastK(ConsoleGroups, Min(ret.arg, Len(ConsoleGroups)))

(***************************************************************************)
(* C7.  In a full result the records count the sorted entries in order,    *)
(* each record the entries whose timestamps it lists, and two entries of   *)
(* equal (type, text) counted by one record have only entries of that      *)
(* (type, text) between them.  For the example buffer the result is        *)
(* a (repeated 2 times) x2, b x1, a x1.                                    *)
(***************************************************************************)
C7_SeparatedNeverMerged ==
    FullConsoleResult =>
        LET s == SortedConsole
            v == ret.value
        IN  /\ SumCounts(v, Len(v)) = Len(s)
            /\ \A k \in 1..Len(v) :
                  /\ v[k].timestamps =
                        [x \in 1..v[k].count |->
                            s[SumCounts(v, k - 1) + x].timestamp]
                  /\ \A i, j \in Covered(v, k) :
                        (i < j /\ SameMessage(s[i], s[j])) =>
                            \A m \in i..j : SameMessage(s[m], s[i])
            /\ ExampleBuffer =>
                  /\ TextsOf(v) = <<"a (repeated 2 times)", "b", "a">>
                  /\ CountsOf(v) = <<2, 1, 1>>

\* get_console_logs(10) has returned three records for the example buffer.
C7_Witness ==
    /\ ExampleBuffer
    /\ ret.op = "get_console_logs"
    /\ ret.arg = ManyLastN
    /\ Len(ret.value) = 3

RECURSIVE SumCountsOver(_, _)
SumCountsOver(v, K) ==
    IF K = {} THEN 0
    ELSE LET k == CHOOSE x \in K : TRUE
         IN  v[k].count + SumCountsOver(v, K \ {k})

(***************************************************************************)
(* C8.  A full result has at most as many records as there are entries,    *)
(* and for every maximal run of identical (type, text) entries the counts  *)
(* of the records that cover entries of the run sum to the run's length,   *)
(* also for texts that end in " (repeated k times)".                       *)
(***************************************************************************)
C8_RunCountSums ==
    FullConsoleResult =>
        LET s == SortedConsole
            v == ret.value
        IN  /\ Len(v) <= Len(s)
            /\ \A i \in RunStarts(s) :
                  SumCountsOver(v, {k \in 1..Len(v) :
                      Covered(v, k) \cap (i..RunEnd(s, i)) # {}})
                    = RunLength(s, i)

(***************************************************************************)
(* C3.  For a positive last_n, get_network_requests returns the last       *)
(* min(last_n, L) of the L stored exchanges in observation order, also     *)
(* when exchanges carry equal timestamps.                                  *)
(***************************************************************************)
C3_LastExchanges ==
    (ret.op = "get_network_requests" /\ ret.arg > 0) =>
        ret.value = LastK(network_requests,
                          Min(ret.arg, Len(network_requests)))

\* The oldest stored exchange of url that has no response yet, as a set:
\* empty when there is none.
OldestUnmatched(url) ==
    {i \in 1..Len(network_requests) :
        /\ network_requests[i].url = url
        /\ network_requests[i].response = <<>>
        /\ \A j \in 1..(i - 1) :
              network_requests[j].url # url \/ network_requests[j].response # <<>>}

(***************************************************************************)
(* C5.  A response event for url u attaches its response to the oldest     *)
(* exchange of url u that has no response yet and changes no other         *)
(* exchange; the buffer keeps its length and order.                        *)
(***************************************************************************)
C5_OldestUnmatchedOnly ==
    [][\A p \in live, u \in Urls, st \in Statuses :
          (ret'.op = "_handle_response" /\ ResponseEvent(p, u, st)) =>
              /\ Len(network_requests') = Len(network_requests)
              /\ \A i \in 1..Len(network_requests) :
                    IF i \in OldestUnmatched(u)
                    THEN /\ network_requests'[i].response =
                               <<[status |-> st, timestamp |-> now]>>
                         /\ [network_requests'[i] EXCEPT !.response = <<>>]
                               = network_requests[i]
                    ELSE network_requests'[i] = network_requests[i]]_vars

\* Two requests of one url were stored and one response for it has come:
\* the first holds it, the second holds none.
C5_Witness ==
    /\ ret.op = "_handle_response"
    /\ Len(network_requests) = 2
    /\ network_requests[1].url = ret.arg.url
    /\ network_requests[2].url = ret.arg.url
    /\ network_requests[1].response # <<>>
    /\ network_requests[1].response[1].status = ret.arg.status
    /\ network_requests[2].response = <<>>

(***************************************************************************)
(* C9.  An exchange holds at most one response, and a response once        *)
(* attached stays as it is while the exchange is in the buffer.            *)
(***************************************************************************)
C9_ResponseNeverReplaced ==
    [][/\ \A i \in 1..Len(network_requests') :
            Len(network_requests'[i].response) <= 1
       /\ \A i \in 1..Len(network_requests) :
            (network_requests[i].response # <<>> /\ i <= Len(network_requests'))
                => network_requests'[i].response = network_requests[i].response
      ]_vars

\* A 404 response for a url has just come while every exchange of that url,
\* and there is one, holds the 200 response attached before.
C9_Witness ==
    /\ ret.op = "_handle_response"
    /\ ret.arg.status = 404
    /\ \E i \in 1..Len(network_requests) : network_requests[i].url = ret.arg.url
    /\ \A i \in 1..Len(network_requests) :
          network_requests[i].url = ret.arg.url =>
              /\ network_requests[i].response # <<>>
              /\ network_requests[i].response[1].status = 200

Queries == {"get_console_logs", "get_network_requests"}

(***************************************************************************)
(* C4.  A query called with last_n = 0 or a negative last_n fails with     *)
(* InvalidArgument and returns no list.                                    *)
(***************************************************************************)
C4_NonPositiveRejected ==
    (ret.op \in Queries /\ ret.arg <= 0) =>
        /\ ret.error = "InvalidArgument"
        /\ ret.value = None

(***************************************************************************)
(* C6.  Once an open_url that made the second or a later page has ended,   *)
(* both buffers hold only entries of that page, and get_console_logs(100)  *)
(* and get_network_requests(100) return the whole of their buffer and      *)
(* only records of that page.                                              *)
(***************************************************************************)
C6_OnlyNewPage ==
    (Idle /\ created >= 2 /\ page = PageObject(created)) =>
        /\ \A i \in 1..Len(console_logs) : console_logs[i].location = page
        /\ \A i \in 1..Len(network_requests) : network_requests[i].origin = page
        /\ (ret.op = "get_console_logs" /\ ret.arg = BigLastN) =>
              /\ SumCounts(ret.value, Len(ret.value)) = Len(console_logs)
              /\ \A k \in 1..Len(ret.value) : ret.value[k].location = page
        /\ (ret.op = "get_network_requests" /\ ret.arg = BigLastN) =>
              /\ ret.value = network_requests
              /\ \A k \in 1..Len(ret.value) : ret.value[k].origin = page

\* get_console_logs(100) has returned records after the second page was
\* opened.
C6_Witness ==
    /\ Idle
    /\ created = 2
    /\ page = PageObject(2)
    /\ ret.op = "get_console_logs"
    /\ ret.arg = BigLastN
    /\ ret.value # <<>>
    /\ network_requests # <<>>

(***************************************************************************)
(* C10.  A response event whose url has no exchange without a response     *)
(* leaves network_requests and console_logs unchanged and raises nothing.  *)
(***************************************************************************)
C10_UnmatchedResponseDropped ==
    [][\A p \in live, u \in Urls, st \in Statuses :
          (/\ ret'.op = "_handle_response"
           /\ ResponseEvent(p, u, st)
           /\ OldestUnmatched(u) = {}) =>
              /\ network_requests' = network_requests
              /\ console_logs' = console_logs
              /\ ret'.error = None]_vars

\* A response has just come for a url of which the buffer, not empty, holds
\* no exchange, with console entries stored.
C10_Witness ==
    /\ ret.op = "_handle_response"
    /\ network_requests # <<>>
    /\ console_logs # <<>>
    /\ \A i \in 1..Len(network_requests) :
          network_requests[i].url # ret.arg.url

\* s is t with one item more at its end.
OneAppended(s, t) == Len(s) = Len(t) + 1 /\ SubSeq(s, 1, Len(t)) = t

\* What a request entry holds of its request event.
RequestOf(e) ==
    [url |-> e.url, method |-> e.method, timestamp |-> e.timestamp,
     origin |-> e.origin]

(***************************************************************************)
(* C11.  A console event appends exactly its entry, stamped with the       *)
(* current time, at the end of console_logs and leaves network_requests    *)
(* as it is; a request event does the same for network_requests and        *)
(* leaves console_logs as it is.  No other step adds, moves or drops an    *)
(* entry of a buffer, but for a reset, which empties the buffer and        *)
(* happens only inside open_url or close: so between two resets each       *)
(* buffer is the sequence of its events in delivery order.                 *)
(***************************************************************************)
C11_AppendInDeliveryOrder ==
    [][/\ \A p \in live, type \in SessionTypes, text \in SessionTexts :
            (ret'.op = "_handle_console_message" /\ ConsoleEvent(p, type, text))
                => /\ console_logs' =
                         Append(console_logs,
                                [type |-> type, text |-> text,
                                 location |-> p, timestamp |-> now])
                   /\ network_requests' = network_requests
       /\ \A p \in live, url \in Urls, method \in Methods :
            (ret'.op = "_handle_request" /\ RequestEvent(p, url, method))
                => /\ OneAppended(network_requests', network_requests)
                   /\ RequestOf(network_requests'[Len(network_requests')]) =
                         [url |-> url, method |-> method, timestamp |-> now,
                          origin |-> p]
                   /\ network_requests'[Len(network_requests')].response = <<>>
                   /\ console_logs' = console_logs
       /\ \/ console_logs' = console_logs
          \/ /\ OneAppended(console_logs', console_logs)
             /\ ret'.op = "_handle_console_message"
          \/ /\ console_logs' = <<>>
             /\ open_pc' # open_pc \/ close_pc' # close_pc
       /\ \/ /\ Len(network_requests') = Len(network_requests)
             /\ \A i \in 1..Len(network_requests) :
                   RequestOf(network_requests'[i]) =
                      RequestOf(network_requests[i])
          \/ /\ OneAppended(network_requests', network_requests)
             /\ ret'.op = "_handle_request"
          \/ /\ network_requests' = <<>>
             /\ open_pc' # open_pc \/ close_pc' # close_pc
      ]_vars

\* After the second open_url the page has delivered (info, a) and then
\* (info, b): the buffer holds them in that order.
C11_Witness ==
    /\ created = 2
    /\ ret.op = "_handle_console_message"
    /\ Len(console_logs) = 2
    /\ console_logs[1].text = "a"
    /\ console_logs[2].text = "b"
    /\ console_logs[1].location = PageObject(2)

\* The session is fully torn down.
TornDown ==
    /\ ~is_initialized
    /\ page = None
    /\ browser = None
    /\ playwright = None
    /\ console_logs = <<>>
    /\ network_requests = <<>>

\* The await close goes to from the handles at hand, "idle" for its end.
NextRelease(pg, br, pw) ==
    IF pg # None THEN "page.close"
    ELSE IF br # None THEN "browser.close"
    ELSE IF pw # None THEN "stop"
    ELSE "idle"

(***************************************************************************)
(* C12.  A close called with no other call in flight releases the page,    *)
(* then the browser, then the engine, each only if its handle is present:  *)
(* every step of close goes to the release of the first handle present,    *)
(* a release that returns has ended its object and cleared its handle,     *)
(* and close ends, without an exception, with the flag false, the three    *)
(* handles absent, both logs empty and nothing left running.  A close      *)
(* called when the three handles are absent releases nothing and changes   *)
(* nothing but the record of the last returned call.                       *)
(***************************************************************************)
C12_CloseReleasesInOrder ==
    [][/\ (close_pc' # close_pc \/ (ret'.op = "close" /\ CallClose)) =>
            /\ close_pc' = NextRelease(page', browser', playwright')
            /\ close_pc = "idle" => <<page', browser', playwright'>> =
                                       <<page, browser, playwright>>
            /\ close_pc = "page.close" =>
                  /\ closing \notin live'
                  /\ page' = None
                  /\ <<browser', playwright'>> = <<browser, playwright>>
            /\ close_pc = "browser.close" =>
                  /\ "browser" \notin running'
                  /\ live' = {}
                  /\ browser' = None
                  /\ <<page', playwright'>> = <<page, playwright>>
            /\ close_pc = "stop" =>
                  /\ running' = {}
                  /\ playwright' = None
                  /\ <<page', browser'>> = <<page, browser>>
            /\ close_pc' = "idle" =>
                  /\ TornDown'
                  /\ live' = {}
                  /\ running' = {}
                  /\ ret' = Returned("close", None, None)
            /\ close_pc' # "idle" => ret' = ret /\ buffers' = buffers
       /\ (/\ Idle
           /\ NextRelease(page, browser, playwright) = "idle"
           /\ ret'.op = "close"
           /\ CallClose) =>
            /\ <<handles, buffers, world, pcs>>' = <<handles, buffers, world, pcs>>
            /\ ret'.error = None
      ]_vars

\* close has ended after it released page 1, the browser and the engine.
C12_Witness ==
    /\ Idle
    /\ ret.op = "close"
    /\ created = 1
    /\ TornDown
    /\ live = {}
    /\ running = {}

(***************************************************************************)
(* C13.  When close was called while an open_url was suspended at one of   *)
(* its awaits and both calls have ended, the session is fully torn down.   *)
(***************************************************************************)
C13_OverlapTornDown == (Idle /\ overlap) => TornDown

\* Every entry of the two buffers was captured from page pg.
OnlyFromIn(logs, requests, pg) ==
    /\ \A i \in 1..Len(logs) : logs[i].location = pg
    /\ \A i \in 1..Len(requests) : requests[i].origin = pg

OnlyFrom(pg) == OnlyFromIn(console_logs, network_requests, pg)

(***************************************************************************)
(* C14.  When page.goto raises inside open_url, open_url ends in that      *)
(* error; the page it made stays the active page, open and with its        *)
(* listeners, and is the only open page; the buffers keep what that page   *)
(* has delivered and hold nothing older; the session stays initialized     *)
(* with its browser running and with no call in flight, so that the        *)
(* queries, open_url and close can be called.                              *)
(***************************************************************************)
C14_GotoFailureKeepsPage ==
    [][(/\ open_pc = "goto"
        /\ open_pc' = "idle"
        /\ ret'.op = "open_url"
        /\ ret'.error # None) =>
           /\ ret'.error = "goto failed"
           /\ ret'.value = None
           /\ page' = PageObject(created)
           /\ live' = {page'}
           /\ buffers' = buffers
           /\ OnlyFromIn(console_logs', network_requests', page')
           /\ is_initialized'
           /\ browser' # None
           /\ "browser" \in running'
           /\ Idle'
      ]_vars

\* The second open_url has just failed in goto, with its page open and an
\* entry of that page stored.
C14_Witness ==
    /\ Idle
    /\ ret.op = "open_url"
    /\ ret.error = "goto failed"
    /\ created = 2
    /\ page = PageObject(2)
    /\ page \in live
    /\ console_logs # <<>>
    /\ OnlyFrom(page)

\* The awaits of initialize.
StartAwaits == {"start", "initialize.start"}
LaunchAwaits == {"launch", "initialize.launch"}
LaunchErrors == {"start failed", "launch failed"}

(***************************************************************************)
(* C15.  An await of initialize (start of the engine, launch of the        *)
(* browser) ends in its result or in its error, never in another attempt;  *)
(* when it raises, the call that awaited initialize (initialize,           *)
(* open_url) ends in that error with is_initialized false, no browser      *)
(* launched and no page made; and the next initialize or open_url called   *)
(* after such an error starts the engine anew.                             *)
(***************************************************************************)
C15_LaunchErrorSurfaced ==
    [][/\ (open_pc \in StartAwaits /\ open_pc' # open_pc) =>
            \/ open_pc' \in LaunchAwaits /\ ret' = ret
            \/ /\ open_pc' = "idle"
               /\ ret'.op = Caller
               /\ ret'.error = "start failed"
       /\ (open_pc \in LaunchAwaits /\ open_pc' # open_pc) =>
            \/ is_initialized' /\ launched' = launched + 1
            \/ /\ open_pc' = "idle"
               /\ ret'.op = Caller
               /\ ret'.error = "launch failed"
       /\ (/\ open_pc \in StartAwaits \cup LaunchAwaits
           /\ open_pc' = "idle"
           /\ ret'.op \in {"initialize", "open_url"}
           /\ ret'.error # None) =>
            /\ ret'.value = None
            /\ ~is_initialized'
            /\ browser' = browser
            /\ launched' = launched
            /\ <<page', created', live'>> = <<page, created, live>>
            /\ buffers' = buffers
       /\ (/\ Idle
           /\ ret.op \in {"initialize", "open_url"}
           /\ ret.error \in LaunchErrors
           /\ open_pc' # open_pc) =>
            /\ open_pc' \in StartAwaits
            /\ ~is_initialized
      ]_vars

\* open_url has failed in the launch of the browser: the session is not
\* initialized and has made no page.
C15_Witness ==
    /\ Idle
    /\ ret.op = "open_url"
    /\ ret.error = "launch failed"
    /\ ~is_initialized
    /\ browser = None
    /\ created = 0

(***************************************************************************)
(* C16.  initialize called on an initialized session, with or without a    *)
(* page, returns at once and changes no handle, no buffer and no process;  *)
(* no call made on an initialized session starts an engine or a browser;   *)
(* and the browsers launched since close last ended number at most one,    *)
(* and exactly one whenever the session is initialized.                    *)
(***************************************************************************)
C16_InitializeIdempotent ==
    [][/\ (/\ Idle
           /\ is_initialized
           /\ ret'.op = "initialize"
           /\ CallInitialize) =>
            /\ <<handles, buffers, world, pcs>>' = <<handles, buffers, world, pcs>>
            /\ launched' = launched
            /\ ret'.error = None
       /\ (is_initialized /\ open_pc' # open_pc) =>
            open_pc' \notin StartAwaits \cup LaunchAwaits
       /\ launched' <= 1
       /\ is_initialized' => launched' = 1
       /\ (open_pc' = "idle" /\ ret'.op = "open_url" /\ ret'.error = None) =>
            launched' = 1
      ]_vars

\* initialize has returned on a session that holds its second page and an
\* entry of it.
C16_Witness ==
    /\ Idle
    /\ ret.op = "initialize"
    /\ ret.error = None
    /\ is_initialized
    /\ page = PageObject(2)
    /\ page \in live
    /\ console_logs # <<>>
    /\ launched = 1

\* The keys of a stored console entry and of a stored request entry.
ConsoleKeys == {"type", "text", "location", "timestamp"}
RequestKeys == {"url", "method", "timestamp", "origin", "response"}

(***************************************************************************)
(* C17.  A call of get_console_logs or of get_network_requests, whatever   *)
(* the buffers hold and whatever last_n is, leaves console_logs and        *)
(* network_requests as they are, entry for entry and field for field; and  *)
(* a stored console entry never has a count and never a text other than    *)
(* the texts the pages emit, which here carry no repetition suffix.        *)
(***************************************************************************)
C17_QueriesReadOnly ==
    [][/\ \A last_n \in SessionLastNs :
            (/\ ret'.op = "get_console_logs"
             /\ CallGetConsoleLogs(last_n)) =>
                /\ console_logs' = console_logs
                /\ network_requests' = network_requests
       /\ \A last_n \in SessionLastNs :
            (/\ ret'.op = "get_network_requests"
             /\ CallGetNetworkRequests(last_n)) =>
                /\ console_logs' = console_logs
                /\ network_requests' = network_requests
       /\ \A i \in 1..Len(console_logs') :
            /\ DOMAIN console_logs'[i] = ConsoleKeys
            /\ console_logs'[i].text \in SessionTexts
       /\ \A i \in 1..Len(network_requests') :
            DOMAIN network_requests'[i] = RequestKeys
      ]_vars

\* get_console_logs(100) has returned one record of count 2 with the
\* rewritten text, and the two stored entries still read "a".
C17_Witness ==
    /\ ret.op = "get_console_logs"
    /\ ret.arg = BigLastN
    /\ Len(ret.value) = 1
    /\ ret.value[1].count = 2
    /\ ret.value[1].text = "a (repeated 2 times)"
    /\ Len(console_logs) = 2
    /\ console_logs[1].text = "a"
    /\ console_logs[2].text = "a"

\* At most one page is open, and it is the page the manager refers to.
OnePageOpen == Cardinality(live) <= 1 /\ live \subseteq {page}

\* An open_url that found a page closes it before it resets the buffers and
\* before it makes the new page.
ClosesOldPageFirst ==
    /\ (open_pc = "page.close" /\ open_pc' # open_pc) =>
          /\ page \notin live'
          /\ console_logs' = <<>>
          /\ network_requests' = <<>>
          /\ created' = created
    /\ created' # created => live = {}

(***************************************************************************)
(* C18.  With the calls made one after the other, at most one page is open *)
(* at any time, and it is the manager's page; open_url closes the page at  *)
(* hand before the reset and before the new page is made; and when         *)
(* open_url has returned or failed, failure of new_page included, the      *)
(* manager's page reference names no closed page.                          *)
(***************************************************************************)
C18_PageNeverClosed ==
    [][/\ OnePageOpen'
       /\ ClosesOldPageFirst
       /\ (/\ open_pc # "idle"
           /\ open_pc' = "idle"
           /\ ret'.op = "open_url"
           /\ page' # None) => page' \in live'
      ]_vars

\* The number of exchanges of url in the entries s, and of those that hold
\* a response.
NumExchanges(s, url) == Cardinality({i \in 1..Len(s) : s[i].url = url})
NumMatched(s, url) ==
    Cardinality({i \in 1..Len(s) : s[i].url = url /\ s[i].response # <<>>})

\* In the entries s no exchange of url without a response precedes one of
\* url that holds a response.
MatchedIsPrefix(s, url) ==
    \A i, j \in 1..Len(s) :
        (/\ i < j
         /\ s[i].url = url
         /\ s[j].url = url
         /\ s[j].response # <<>>) => s[i].response # <<>>

C20_HandlesAgreeWithFlag ==
    Idle =>
        /\ is_initialized <=> (playwright # None /\ browser # None)
        /\ page # None => is_initialized
        /\ ~is_initialized => (playwright = None /\ browser = None)

====
